---- MODULE Spec2Model ----
(***************************************************************************)
(* WorkflowX: the step list of a workflow, the run loop of                 *)
(* Workflow.run (src/src/Workflow.ts) with its success / failure / always  *)
(* continuation policy, the chainable methods of that class, and the       *)
(* operations of WorkflowBuilder (src/src/builders/Builder.ts).            *)
(*                                                                         *)
(* Indices are 0-based as in the source; a TLA+ sequence s holds the       *)
(* element of source index i at s[i + 1].                                  *)
(***************************************************************************)
EXTENDS Integers, Sequences, FiniteSets, TLC

VARIABLES
    steps,        \* Workflow.steps: the step list the run loop iterates over
    pc,           \* position of run(): "idle", "loop", "running", "returned", "threw"
    index,        \* the loop's current index into steps.entries()
    result,       \* run(): let result
    caughtError,  \* run(): let caughtError
    errorStep,    \* run(): let errorStep
    output,       \* the WorkflowResult run() returned
    started,      \* observation: indices whose run function was invoked, in order
    finished,     \* observation: [index, threw] of every invocation that completed
    blueprint,    \* the WorkflowBlueprint the Builder operates on
    call,         \* observation: the Builder call that produced blueprint, the
                  \* calls before it, and how many more calls the caller makes
    asStep,       \* the WorkflowAsStep instance: its wrapped blueprint
    workflows,    \* the instances of the Workflow class: the array each holds in steps
    arrays        \* the step arrays the instances refer to, by identity

vars == <<steps, pc, index, result, caughtError, errorStep, output,
          started, finished, blueprint, call, asStep, workflows, arrays>>

runVars == <<steps, pc, index, result, caughtError, errorStep, output,
             started, finished, asStep, workflows, arrays>>

-----------------------------------------------------------------------------
(* Bounds of the model *)

\* Longest step list a run is started on.
MaxSteps == 3

\* Longest step list of a blueprint before a Builder call.
MaxLen == 3

\* Longest chain of context calls made on one blueprint.
MaxCalls == 2

\* Longest step list of a blueprint wrapped in a WorkflowAsStep.
MaxInner == 2

-----------------------------------------------------------------------------
(* Values *)

Undefined == "undefined"

Null == [kind |-> "null"]

NoOutput == [status |-> "none"]

\* What a step's run function may throw: an Error object, or a value that
\* is not an Error (here a string).
Throwables ==
    { [kind |-> "Error", id |-> "E1", message |-> "boom"],
      [kind |-> "string", value |-> "oops"] }

ReturnValues == {"a", "b"}

\* The behaviour of an opaque run function: it returns a value or throws.
Outcomes ==
    { [kind |-> "return", value |-> v] : v \in ReturnValues }
    \cup { [kind |-> "throw", value |-> t] : t \in Throwables }

OnValues == {Undefined, "success", "failure", "always"}

\* A step without a name, and a step named by the characters of its name.
NoName == [defined |-> FALSE]

Named(chars) == [defined |-> TRUE, chars |-> chars]

\* Step: { name?, on?, run }.
RunnableSteps ==
    { [name |-> NoName, on |-> o, out |-> b] : o \in OnValues, b \in Outcomes }

\* The conclude step createBlueprint supplies: { run() {} }
DefaultConclude == [name |-> NoName, on |-> Undefined,
                    out |-> [kind |-> "return", value |-> Undefined]]

\* A WorkflowAsStep around an empty blueprint.
NoAdapter ==
    [blueprint |-> [steps |-> <<>>, conclude |-> DefaultConclude,
                    userContext |-> [k \in {} |-> 0]]]

RECURSIVE SeqsUpTo(_, _)
SeqsUpTo(S, n) ==
    IF n = 0 THEN {<<>>}
    ELSE LET shorter == SeqsUpTo(S, n - 1)
         IN shorter \cup { Append(s, x) : s \in { t \in shorter : Len(t) = n - 1 }, x \in S }

-----------------------------------------------------------------------------
(* Workflow.runStep and the pieces of Workflow.run *)

\* String(error)
String(e) == IF e.kind = "string" THEN e.value ELSE e.message

\* Every thrown value is wrapped, an Error too.
ProcessErrorWrapsAll(e) == [kind |-> "Error", id |-> "new", message |-> String(e)]

\* error instanceof Error ? error : new Error(String(error))
ProcessError(e) ==
    IF e.kind = "Error" THEN e
    ELSE [kind |-> "Error", id |-> "new", message |-> String(e)]

\* A runStep that lets the exception escape instead of catching it.
runStepNoCatch(step) ==
    IF step.out.kind = "throw"
    THEN [tag |-> "uncaught", thrown |-> step.out.value]
    ELSE [tag |-> "result", result |-> step.out.value]

\* try { return { result: step.run(ctx) } } catch (error) { return { error } }
runStep(step) ==
    IF step.out.kind = "throw"
    THEN [tag |-> "error", error |-> ProcessError(step.out.value)]
    ELSE [tag |-> "result", result |-> step.out.value]

\* Skips only steps that spell out on: "success".
ShouldSkipOnlyExplicit(step, err) ==
    step.on = "success" /\ err # Null

\* Never skips.
ShouldSkipNever(step, err) == FALSE

\* Treats on: "always" like the default policy.
ShouldSkipAlwaysToo(step, err) ==
    (step.on = Undefined \/ step.on = "success" \/ step.on = "always") /\ err # Null

\* if ((!step.on || step.on === "success") && caughtError) continue;
ShouldSkip(step, err) ==
    (step.on = Undefined \/ step.on = "success") /\ err # Null

\* return caughtError ? failedOutput : successOutput;
RunOutput(res, err, errStep) ==
    IF err # Null
    THEN [status |-> "failed", step |-> errStep, error |-> err]
    ELSE [status |-> "success", result |-> res]

\* The step the loop is at: steps.entries() yields [index, step].
CurrentStep == steps[index + 1]

-----------------------------------------------------------------------------
(* Workflow.run as a state machine *)

Init ==
    /\ steps \in SeqsUpTo(RunnableSteps, MaxSteps)
    /\ pc = "idle"
    /\ index = 0
    /\ result = Undefined
    /\ caughtError = Null
    /\ errorStep = -1
    /\ output = NoOutput
    /\ started = <<>>
    /\ finished = <<>>
    /\ blueprint = [steps |-> <<>>, conclude |-> DefaultConclude,
                    userContext |-> [k \in {} |-> 0]]
    /\ call = [op |-> "createBlueprint", left |-> 0]
    /\ asStep = NoAdapter
    /\ workflows = <<>>
    /\ arrays = <<>>

\* let result; let caughtError = null; let errorStep = -1; enter the loop
RunBegin ==
    /\ pc = "idle"
    /\ pc' = "loop"
    /\ index' = 0
    /\ result' = Undefined
    /\ caughtError' = Null
    /\ errorStep' = -1
    /\ UNCHANGED <<steps, output, started, finished, blueprint, call, asStep,
                   workflows, arrays>>

\* the `continue` of the skip test
RunSkip ==
    /\ pc = "loop"
    /\ index < Len(steps)
    /\ ShouldSkip(CurrentStep, caughtError)
    /\ index' = index + 1
    /\ UNCHANGED <<steps, pc, result, caughtError, errorStep, output,
                   started, finished, blueprint, call, asStep, workflows, arrays>>

\* this.runStep(step) calls step.run
RunInvoke ==
    /\ pc = "loop"
    /\ index < Len(steps)
    /\ ~ShouldSkip(CurrentStep, caughtError)
    /\ pc' = "running"
    /\ started' = Append(started, index)
    /\ UNCHANGED <<steps, index, result, caughtError, errorStep, output,
                   finished, blueprint, call, asStep,
                   workflows, arrays>>

\* A failing step is run again instead of being left behind.
RunStepErrorRetry ==
    /\ pc = "running"
    /\ runStep(CurrentStep).tag = "error"
    /\ finished' = Append(finished, [index |-> index, threw |-> TRUE])
    /\ caughtError' = runStep(CurrentStep).error
    /\ errorStep' = index
    /\ pc' = "loop"
    /\ UNCHANGED <<steps, index, result, output, started, blueprint, call, asStep,
                   workflows, arrays>>

\* Only the first failure is recorded.
RunStepErrorKeepFirst ==
    /\ pc = "running"
    /\ runStep(CurrentStep).tag = "error"
    /\ finished' = Append(finished, [index |-> index, threw |-> TRUE])
    /\ caughtError' = IF caughtError = Null THEN runStep(CurrentStep).error
                      ELSE caughtError
    /\ errorStep' = IF caughtError = Null THEN index ELSE errorStep
    /\ index' = index + 1
    /\ pc' = "loop"
    /\ UNCHANGED <<steps, result, output, started, blueprint, call, asStep,
                   workflows, arrays>>

\* step.run threw: if (error) { caughtError = error; errorStep = index; continue; }
\* An exception runStep did not catch would leave run() without a Result.
RunStepError ==
    /\ pc = "running"
    /\ runStep(CurrentStep).tag # "result"
    /\ finished' = Append(finished, [index |-> index, threw |-> TRUE])
    /\ IF runStep(CurrentStep).tag = "error"
       THEN /\ caughtError' = runStep(CurrentStep).error
            /\ errorStep' = index
            /\ index' = index + 1
            /\ pc' = "loop"
       ELSE /\ pc' = "threw"
            /\ UNCHANGED <<caughtError, errorStep, index>>
    /\ UNCHANGED <<steps, result, output, started, blueprint, call, asStep,
                   workflows, arrays>>

\* A step that returns normally clears the recorded failure.
RunStepResultClears ==
    /\ pc = "running"
    /\ runStep(CurrentStep).tag = "result"
    /\ finished' = Append(finished, [index |-> index, threw |-> FALSE])
    /\ result' = runStep(CurrentStep).result
    /\ caughtError' = Null
    /\ index' = index + 1
    /\ pc' = "loop"
    /\ UNCHANGED <<steps, errorStep, output, started, blueprint, call, asStep,
                   workflows, arrays>>

\* Only the first return value is kept.
RunStepResultKeepFirst ==
    /\ pc = "running"
    /\ runStep(CurrentStep).tag = "result"
    /\ finished' = Append(finished, [index |-> index, threw |-> FALSE])
    /\ result' = IF result = Undefined THEN runStep(CurrentStep).result ELSE result
    /\ index' = index + 1
    /\ pc' = "loop"
    /\ UNCHANGED <<steps, caughtError, errorStep, output, started, blueprint, call, asStep,
                   workflows, arrays>>

\* step.run returned: result = stepResult;
RunStepResult ==
    /\ pc = "running"
    /\ runStep(CurrentStep).tag = "result"
    /\ finished' = Append(finished, [index |-> index, threw |-> FALSE])
    /\ result' = runStep(CurrentStep).result
    /\ index' = index + 1
    /\ pc' = "loop"
    /\ UNCHANGED <<steps, caughtError, errorStep, output, started, blueprint, call, asStep,
                   workflows, arrays>>

\* the loop is exhausted: return caughtError ? failedOutput : successOutput
RunReturn ==
    /\ pc = "loop"
    /\ index = Len(steps)
    /\ output' = RunOutput(result, caughtError, errorStep)
    /\ pc' = "returned"
    /\ UNCHANGED <<steps, index, result, caughtError, errorStep,
                   started, finished, blueprint, call, asStep, workflows, arrays>>

Next ==
    \/ RunBegin
    \/ RunSkip
    \/ RunInvoke
    \/ RunStepError
    \/ RunStepResult
    \/ RunReturn

Spec == Init /\ [][Next]_vars

\* run() is a plain synchronous loop: whenever it can take a step it does.
FairSpec == Init /\ [][Next]_vars /\ WF_vars(Next)

-----------------------------------------------------------------------------
(* Values of the Builder: step names, patterns, StepInsertOptions *)

\* Step names, as their characters.
Names == { <<"e", "/", "a">>, <<"e", "/", "b">>, <<"c">> }

\* Name patterns: "e/*", "e/a", "*" and the empty pattern.
Patterns == { <<"e", "/", "*">>, <<"e", "/", "a">>, <<"*">>, <<>> }

\* The steps a blueprint is created with.
BlueprintSteps ==
    { [name |-> n, on |-> Undefined, out |-> [kind |-> "return", value |-> "a"]] :
        n \in { Named(c) : c \in Names } \cup {NoName} }

\* The steps handed to addStep.
StepX == [name |-> Named(<<"x">>), on |-> Undefined, out |-> [kind |-> "return", value |-> "b"]]

StepY == [name |-> NoName, on |-> Undefined, out |-> [kind |-> "return", value |-> "b"]]

NewStepLists == { <<StepX>>, <<StepX, StepY>> }

\* An option of StepInsertOptions: its key is absent, or it holds a number,
\* a string or a boolean.
Absent == [t |-> "undefined"]

Num(n) == [t |-> "number", n |-> n]

Str(s) == [t |-> "string", s |-> s]

Bool(b) == [t |-> "boolean", b |-> b]

\* before / after: absent, an index (in range or one or two off either end),
\* or a pattern.
PositionOptions(len) ==
    {Absent} \cup { Num(n) : n \in (-1)..(len + 1) } \cup { Str(p) : p \in Patterns }

MultiOptions ==
    {Absent, Bool(TRUE), Bool(FALSE)} \cup { Num(n) : n \in (-2)..2 }

InsertOptions(len) ==
    [before : PositionOptions(len), after : PositionOptions(len), multi : MultiOptions]

-----------------------------------------------------------------------------
(* Array primitives the Builder uses *)

Max(a, b) == IF a >= b THEN a ELSE b

Min(a, b) == IF a <= b THEN a ELSE b

\* A relative array index as Array.prototype.slice / splice clamp it.
Clamp(k, len) == IF k < 0 THEN Max(len + k, 0) ELSE Min(k, len)

\* s.slice(start, end)
Slice(s, start, end) ==
    SubSeq(s, Clamp(start, Len(s)) + 1, Clamp(end, Len(s)))

\* s.slice(start)
SliceFrom(s, start) == Slice(s, start, Len(s))

\* s.splice(start, 1, ...items): the element at the index is replaced.
SpliceOverwrites(s, start, items) ==
    LET at == Clamp(start, Len(s))
    IN SubSeq(s, 1, at) \o items \o SubSeq(s, at + 2, Len(s))

\* s.splice(start, 0, ...items): the array after the insertion
Splice(s, start, items) ==
    LET at == Clamp(start, Len(s))
    IN SubSeq(s, 1, at) \o items \o SubSeq(s, at + 1, Len(s))

\* s.reverse()
RECURSIVE Reverse(_)
Reverse(s) == IF s = <<>> THEN <<>> ELSE Append(Reverse(Tail(s)), Head(s))

\* minimatch(name, pattern) on plain characters and "*": "*" stands for any
\* run of characters other than "/".
RECURSIVE minimatch(_, _)
minimatch(name, pattern) ==
    IF pattern = <<>> THEN name = <<>>
    ELSE IF Head(pattern) = "*"
         THEN \/ minimatch(name, Tail(pattern))
              \/ name # <<>> /\ Head(name) # "/" /\ minimatch(Tail(name), pattern)
         ELSE name # <<>> /\ Head(name) = Head(pattern)
                /\ minimatch(Tail(name), Tail(pattern))

\* step.name as a condition: a name that is present and not the empty string
Truthy(name) == name.defined /\ name.chars # <<>>

-----------------------------------------------------------------------------
(* WorkflowBuilder: insertion points *)

\* steps.map((step, index) => step.name && minimatch(step.name, test) ? index : -1)
\*      .filter((index) => index !== -1)
findMatchingStepIndices(list, test) ==
    LET mapped == [i \in 1..Len(list) |->
                     IF Truthy(list[i].name) /\ minimatch(list[i].name.chars, test)
                     THEN i - 1 ELSE -1]
        Kept(k) == k # -1
    IN SelectSeq(mapped, Kept)

\* switch (typeof option): the points of one option; the null of an absent
\* option is the empty list its caller turns it into
processOption(list, option, pos) ==
    IF option.t = "undefined" THEN <<>>
    ELSE IF option.t = "number" THEN << [index |-> option.n, pos |-> pos] >>
    ELSE LET found == findMatchingStepIndices(list, option.s)
         IN [k \in 1..Len(found) |-> [index |-> found[k], pos |-> pos]]

\* The default insertion point at the front of the list.
defaultInsertIndexFront(list) == << [index |-> 0, pos |-> "before"] >>

\* [{ index: blueprint.steps.length, pos: "after" }]
defaultInsertIndex(list) == << [index |-> Len(list), pos |-> "after"] >>

\* The comparator of indices.sort
ComparePoints(a, b) ==
    IF a.index # b.index THEN a.index - b.index
    ELSE IF a.pos = "before" THEN -1 ELSE 1

\* One step of a stable sort: x goes behind every element that does not
\* compare greater than it.
RECURSIVE InsertSorted(_, _)
InsertSorted(s, x) ==
    IF s = <<>> THEN <<x>>
    ELSE IF ComparePoints(s[Len(s)], x) > 0
         THEN Append(InsertSorted(SubSeq(s, 1, Len(s) - 1), x), s[Len(s)])
         ELSE Append(s, x)

\* indices.sort(comparator)
RECURSIVE SortPoints(_)
SortPoints(s) ==
    IF s = <<>> THEN <<>>
    ELSE InsertSorted(SortPoints(SubSeq(s, 1, Len(s) - 1)), s[Len(s)])

\* The before-points followed by the after-points, left unsorted.
getSortedIndicesUnsorted(list, options) ==
    processOption(list, options.before, "before")
        \o processOption(list, options.after, "after")

\* The before-points followed by the after-points, sorted.
getSortedIndices(list, options) ==
    SortPoints(processOption(list, options.before, "before")
               \o processOption(list, options.after, "after"))

\* A negative multi keeps the first |multi| points, as a positive one does.
handleMultiOptionIgnoresSign(indices, multi) ==
    IF multi.t = "undefined" \/ (multi.t = "boolean" /\ multi.b) THEN indices
    ELSE IF multi.t = "boolean" THEN Slice(indices, 0, 1)
    ELSE IF multi.n > 0 THEN Slice(indices, 0, multi.n)
    ELSE Slice(indices, 0, 0 - multi.n)

\* multi: 0 is taken for an unset multi (a truthiness test).
handleMultiOptionZeroAsUnset(indices, multi) ==
    IF multi.t = "undefined" \/ (multi.t = "boolean" /\ multi.b) THEN indices
    ELSE IF multi.t = "boolean" THEN Slice(indices, 0, 1)
    ELSE IF multi.n = 0 THEN indices
    ELSE IF multi.n > 0 THEN Slice(indices, 0, multi.n)
    ELSE SliceFrom(indices, Max(Len(indices) + multi.n, 0))

\* The filter of the multi option.
handleMultiOption(indices, multi) ==
    IF multi.t = "undefined" \/ (multi.t = "boolean" /\ multi.b) THEN indices
    ELSE IF multi.t = "boolean" THEN Slice(indices, 0, 1)
    ELSE IF multi.n > 0 THEN Slice(indices, 0, multi.n)
    ELSE SliceFrom(indices, Max(Len(indices) + multi.n, 0))

\* Only the before and after keys are looked at.
NoKeysIgnoresMulti(options) ==
    options.before.t = "undefined" /\ options.after.t = "undefined"

\* Object.keys(options).length === 0
NoKeys(options) ==
    options.before.t = "undefined" /\ options.after.t = "undefined"
        /\ options.multi.t = "undefined"

calcInsertIndex(list, options) ==
    IF NoKeys(options) THEN defaultInsertIndex(list)
    ELSE handleMultiOption(getSortedIndices(list, options), options.multi)

\* The points are applied as computed, lowest index first.
InsertionOrderAscending(points) == points

\* calcInsertIndex(blueprint, options)?.reverse()
InsertionOrder(points) == Reverse(points)

\* An "after" point is spliced at its index, like a "before" point.
RECURSIVE ApplyPointsAfterAtIndex(_, _, _)
ApplyPointsAfterAtIndex(list, points, new) ==
    IF points = <<>> THEN list
    ELSE ApplyPointsAfterAtIndex(Splice(list, Head(points).index, new), Tail(points), new)

\* The loop of addStep: one splice per insertion point, in the given order.
RECURSIVE ApplyPoints(_, _, _)
ApplyPoints(list, points, new) ==
    IF points = <<>> THEN list
    ELSE LET p == Head(points)
             at == IF p.pos = "before" THEN p.index ELSE p.index + 1
         IN ApplyPoints(Splice(list, at, new), Tail(points), new)

\* WorkflowBuilder.addStep: blueprint.steps = newSteps; return blueprint
addStep(bp, new, options) ==
    [bp EXCEPT !.steps =
        ApplyPoints(bp.steps, InsertionOrder(calcInsertIndex(bp.steps, options)), new)]

-----------------------------------------------------------------------------
(* WorkflowBuilder: the other operations.  Each assigns a field of the     *)
(* blueprint object it was given and returns that same object.             *)

\* Keys and values of a user context.
CtxKeys == {"k1", "k2"}

CtxValues == {1, 2}

\* The user contexts: objects with some of the keys.
Contexts == UNION { [K -> CtxValues] : K \in SUBSET CtxKeys }

\* {}
EmptyContext == [k \in {} |-> 0]

\* An optional context argument: omitted, or an object.
NoContext == [given |-> FALSE]

Given(ctx) == [given |-> TRUE, value |-> ctx]

\* { ...a, ...b }
Spread(a, b) ==
    [k \in (DOMAIN a) \cup (DOMAIN b) |-> IF k \in DOMAIN b THEN b[k] ELSE a[k]]

\* A second conclude step.
OtherConclude == [name |-> Named(<<"c">>), on |-> Undefined,
                  out |-> [kind |-> "return", value |-> "b"]]

\* Only the first of the given steps is pushed.
pushStepFirstOnly(bp, new) == [bp EXCEPT !.steps = Append(bp.steps, Head(new))]

\* blueprint.steps.push(...steps); return blueprint
pushStep(bp, new) == [bp EXCEPT !.steps = bp.steps \o new]

\* blueprint.steps.unshift(...steps); return blueprint
unshiftStep(bp, new) == [bp EXCEPT !.steps = new \o bp.steps]

\* The blueprint is reset to what createBlueprint() gives.
clearStepsResetsAll(bp) ==
    [steps |-> <<>>, conclude |-> DefaultConclude, userContext |-> EmptyContext]

\* blueprint.steps = []; return blueprint
clearSteps(bp) == [bp EXCEPT !.steps = <<>>]

\* n: number = 1
CountOrDefault(n) == IF n.t = "undefined" THEN 1 ELSE n.n

\* The end of the slice is not kept from going negative.
popStepNoClamp(bp, n) ==
    [bp EXCEPT !.steps = Slice(bp.steps, 0, Len(bp.steps) - CountOrDefault(n))]

\* blueprint.steps.slice(0, Math.max(0, blueprint.steps.length - n))
popStep(bp, n) ==
    [bp EXCEPT !.steps = Slice(bp.steps, 0, Max(0, Len(bp.steps) - CountOrDefault(n)))]

\* A negative count is taken for 0.
shiftStepNegativeAsZero(bp, n) ==
    [bp EXCEPT !.steps = SliceFrom(bp.steps, Max(0, CountOrDefault(n)))]

\* blueprint.steps.slice(n)
shiftStep(bp, n) ==
    [bp EXCEPT !.steps = SliceFrom(bp.steps, CountOrDefault(n))]

\* testFn of removeStep: a pattern on the step's name, or membership in
\* the given array.
RemoveTest(step, target) ==
    IF target.t = "string"
    THEN step.name.defined /\ minimatch(step.name.chars, target.s)
    ELSE \E k \in 1..Len(target.steps) : target.steps[k] = step

\* Only the first step the test selects is removed.
removeStepFirstOnly(bp, target) ==
    LET hits == { k \in 1..Len(bp.steps) : RemoveTest(bp.steps[k], target) }
        first == CHOOSE k \in hits : \A m \in hits : k <= m
    IN IF hits = {} THEN bp
       ELSE [bp EXCEPT !.steps = SubSeq(bp.steps, 1, first - 1)
                                   \o SubSeq(bp.steps, first + 1, Len(bp.steps))]

\* blueprint.steps = blueprint.steps.filter((step) => !testFn(step))
removeStep(bp, target) ==
    LET Kept(step) == ~RemoveTest(step, target)
    IN [bp EXCEPT !.steps = SelectSeq(bp.steps, Kept)]

\* blueprint.conclude = conclude; return blueprint
setConclude(bp, conclude) == [bp EXCEPT !.conclude = conclude]

\* The given context is merged over the old one instead of replacing it.
setContextMerges(bp, context) ==
    [bp EXCEPT !.userContext =
        Spread(bp.userContext, IF context.given THEN context.value ELSE EmptyContext)]

\* blueprint.userContext = context || {}; return blueprint
setContext(bp, context) ==
    [bp EXCEPT !.userContext = IF context.given THEN context.value ELSE EmptyContext]

\* The spread is the other way round: on a conflict the old value wins.
mergeContextOldWins(bp, context) ==
    [bp EXCEPT !.userContext =
        Spread(IF context.given THEN context.value ELSE EmptyContext, bp.userContext)]

\* blueprint.userContext = { ...blueprint.userContext, ...context }
mergeContext(bp, context) ==
    [bp EXCEPT !.userContext =
        Spread(bp.userContext, IF context.given THEN context.value ELSE EmptyContext)]

\* Only the keys the context already has are updated.
updateContextKnownKeysOnly(bp, context) ==
    [bp EXCEPT !.userContext =
        [k \in DOMAIN bp.userContext |->
            IF k \in DOMAIN context THEN context[k] ELSE bp.userContext[k]]]

\* blueprint.userContext = { ...blueprint.userContext, ...context }
updateContext(bp, context) ==
    [bp EXCEPT !.userContext = Spread(bp.userContext, context)]

-----------------------------------------------------------------------------
(* Builder calls on a blueprint *)

\* WorkflowBuilder.createBlueprint(steps)
InitBuilder ==
    /\ blueprint \in { [steps |-> s, conclude |-> DefaultConclude,
                        userContext |-> EmptyContext] :
                         s \in SeqsUpTo(BlueprintSteps, MaxLen) }
    /\ call = [op |-> "createBlueprint", left |-> 1]
    /\ asStep = NoAdapter
    /\ workflows = <<>>
    /\ arrays = <<>>
    /\ steps = <<>>
    /\ pc = "idle"
    /\ index = 0
    /\ result = Undefined
    /\ caughtError = Null
    /\ errorStep = -1
    /\ output = NoOutput
    /\ started = <<>>
    /\ finished = <<>>

\* A call of WorkflowBuilder.addStep with options of the given set.
AddStepCall(optionSet) ==
    /\ call.left > 0
    /\ \E new \in NewStepLists, options \in optionSet :
          /\ blueprint' = addStep(blueprint, new, options)
          /\ call' = [op |-> "addStep", left |-> call.left - 1, prev |-> call,
                      before |-> blueprint, steps |-> new,
                      options |-> options,
                      sorted |-> getSortedIndices(blueprint.steps, options),
                      points |-> calcInsertIndex(blueprint.steps, options)]
    /\ UNCHANGED runVars

\* WorkflowBuilder.addStep(blueprint, steps, options)
BuilderAddStep == AddStepCall(InsertOptions(Len(blueprint.steps)))

\* The counts handed to popStep / shiftStep: omitted, or a number.
Counts == {Absent} \cup { Num(n) : n \in (-2)..(MaxLen + 1) }

\* What removeStep is handed: a pattern, or an array of steps.
RemoveTargets ==
    { Str(p) : p \in Patterns }
    \cup { [t |-> "array", steps |-> s] : s \in SeqsUpTo(BlueprintSteps \cup {StepX}, 2) }

\* WorkflowBuilder.pushStep(blueprint, steps)
BuilderPushStep ==
    /\ call.left > 0
    /\ \E new \in NewStepLists :
          /\ blueprint' = pushStep(blueprint, new)
          /\ call' = [op |-> "pushStep", left |-> call.left - 1, prev |-> call,
                      before |-> blueprint, steps |-> new]
    /\ UNCHANGED runVars

\* WorkflowBuilder.unshiftStep(blueprint, steps)
BuilderUnshiftStep ==
    /\ call.left > 0
    /\ \E new \in NewStepLists :
          /\ blueprint' = unshiftStep(blueprint, new)
          /\ call' = [op |-> "unshiftStep", left |-> call.left - 1, prev |-> call,
                      before |-> blueprint, steps |-> new]
    /\ UNCHANGED runVars

\* WorkflowBuilder.clearSteps(blueprint)
BuilderClearSteps ==
    /\ call.left > 0
    /\ blueprint' = clearSteps(blueprint)
    /\ call' = [op |-> "clearSteps", left |-> call.left - 1, prev |-> call,
                      before |-> blueprint]
    /\ UNCHANGED runVars

\* WorkflowBuilder.popStep(blueprint, n)
BuilderPopStep ==
    /\ call.left > 0
    /\ \E n \in Counts :
          /\ blueprint' = popStep(blueprint, n)
          /\ call' = [op |-> "popStep", left |-> call.left - 1, prev |-> call,
                      before |-> blueprint, n |-> n]
    /\ UNCHANGED runVars

\* WorkflowBuilder.shiftStep(blueprint, n)
BuilderShiftStep ==
    /\ call.left > 0
    /\ \E n \in Counts :
          /\ blueprint' = shiftStep(blueprint, n)
          /\ call' = [op |-> "shiftStep", left |-> call.left - 1, prev |-> call,
                      before |-> blueprint, n |-> n]
    /\ UNCHANGED runVars

\* WorkflowBuilder.removeStep(blueprint, steps)
BuilderRemoveStep ==
    /\ call.left > 0
    /\ \E target \in RemoveTargets :
          /\ blueprint' = removeStep(blueprint, target)
          /\ call' = [op |-> "removeStep", left |-> call.left - 1, prev |-> call,
                      before |-> blueprint, target |-> target]
    /\ UNCHANGED runVars

\* WorkflowBuilder.setConclude(blueprint, conclude)
BuilderSetConclude ==
    /\ call.left > 0
    /\ \E conclude \in {DefaultConclude, OtherConclude} :
          /\ blueprint' = setConclude(blueprint, conclude)
          /\ call' = [op |-> "setConclude", left |-> call.left - 1, prev |-> call,
                      before |-> blueprint, conclude |-> conclude]
    /\ UNCHANGED runVars

\* WorkflowBuilder.setContext(blueprint, context?)
BuilderSetContext ==
    /\ call.left > 0
    /\ \E context \in {NoContext} \cup { Given(c) : c \in Contexts } :
          /\ blueprint' = setContext(blueprint, context)
          /\ call' = [op |-> "setContext", left |-> call.left - 1, prev |-> call,
                      before |-> blueprint, context |-> context]
    /\ UNCHANGED runVars

\* WorkflowBuilder.mergeContext(blueprint, context?)
BuilderMergeContext ==
    /\ call.left > 0
    /\ \E context \in {NoContext} \cup { Given(c) : c \in Contexts } :
          /\ blueprint' = mergeContext(blueprint, context)
          /\ call' = [op |-> "mergeContext", left |-> call.left - 1, prev |-> call,
                      before |-> blueprint, context |-> context]
    /\ UNCHANGED runVars

\* WorkflowBuilder.updateContext(blueprint, context)
BuilderUpdateContext ==
    /\ call.left > 0
    /\ \E context \in Contexts :
          /\ blueprint' = updateContext(blueprint, context)
          /\ call' = [op |-> "updateContext", left |-> call.left - 1, prev |-> call,
                      before |-> blueprint,
                      context |-> Given(context)]
    /\ UNCHANGED runVars

\* The step-list operations on a blueprint created from a step list.
NextBuilder ==
    \/ BuilderAddStep
    \/ BuilderPushStep
    \/ BuilderUnshiftStep
    \/ BuilderClearSteps
    \/ BuilderPopStep
    \/ BuilderShiftStep
    \/ BuilderRemoveStep

SpecBuilder == InitBuilder /\ [][NextBuilder]_vars

\* The contexts a blueprint is created with.
InitialContexts ==
    { EmptyContext, [k \in {"k1"} |-> 1], [k \in CtxKeys |-> IF k = "k1" THEN 1 ELSE 2] }

\* A blueprint on which a chain of context calls is made.
InitContext ==
    /\ blueprint \in [steps : SeqsUpTo({StepX}, 1),
                       conclude : {DefaultConclude},
                       userContext : InitialContexts]
    /\ call = [op |-> "createBlueprint", left |-> MaxCalls]
    /\ asStep = NoAdapter
    /\ workflows = <<>>
    /\ arrays = <<>>
    /\ steps = <<>>
    /\ pc = "idle"
    /\ index = 0
    /\ result = Undefined
    /\ caughtError = Null
    /\ errorStep = -1
    /\ output = NoOutput
    /\ started = <<>>
    /\ finished = <<>>

\* The context operations, one after another on the same blueprint.
NextContext ==
    \/ BuilderSetContext
    \/ BuilderMergeContext
    \/ BuilderUpdateContext

SpecContext == InitContext /\ [][NextContext]_vars

\* The options of the addStep calls made beside the other operations.
FewInsertOptions ==
    [before : {Absent, Num(0), Str(<<"e", "/", "*">>)},
     after : {Absent, Num(0), Str(<<"e", "/", "*">>)},
     multi : {Absent, Bool(FALSE)}]

\* WorkflowBuilder.createBlueprint(steps, conclude, context)
InitBlueprint ==
    /\ blueprint \in [steps : SeqsUpTo(BlueprintSteps, MaxLen),
                       conclude : {DefaultConclude, OtherConclude},
                       userContext : InitialContexts]
    /\ call = [op |-> "createBlueprint", left |-> 1]
    /\ asStep = NoAdapter
    /\ workflows = <<>>
    /\ arrays = <<>>
    /\ steps = <<>>
    /\ pc = "idle"
    /\ index = 0
    /\ result = Undefined
    /\ caughtError = Null
    /\ errorStep = -1
    /\ output = NoOutput
    /\ started = <<>>
    /\ finished = <<>>

\* WorkflowBuilder.addStep beside the other operations
BlueprintAddStep == AddStepCall(FewInsertOptions)

\* Every operation of the Builder on a blueprint with steps, conclude and
\* user context.
NextBlueprint ==
    \/ BlueprintAddStep
    \/ BuilderPushStep
    \/ BuilderUnshiftStep
    \/ BuilderClearSteps
    \/ BuilderPopStep
    \/ BuilderShiftStep
    \/ BuilderRemoveStep
    \/ BuilderSetConclude
    \/ BuilderSetContext
    \/ BuilderMergeContext
    \/ BuilderUpdateContext

SpecBlueprint == InitBlueprint /\ [][NextBlueprint]_vars

-----------------------------------------------------------------------------
(* Claims about WorkflowBuilder.addStep *)

\* The step's name matches the pattern of a string option.
NameMatches(step, option) ==
    /\ option.t = "string"
    /\ step.name.defined
    /\ minimatch(step.name.chars, option.s)

\* The list with a copy of `new` before every step matching `before` and
\* after every step matching `after`.
RECURSIVE Surrounded(_, _, _, _)
Surrounded(list, new, before, after) ==
    IF list = <<>> THEN <<>>
    ELSE (IF NameMatches(Head(list), before) THEN new ELSE <<>>)
         \o << Head(list) >>
         \o (IF NameMatches(Head(list), after) THEN new ELSE <<>>)
         \o Surrounded(Tail(list), new, before, after)

\* addStep was called with name patterns only and no multi option.
PatternCall ==
    /\ call.op = "addStep"
    /\ call.options.multi = Absent
    /\ call.options.before.t \in {"undefined", "string"}
    /\ call.options.after.t \in {"undefined", "string"}
    /\ call.options.before.t = "string" \/ call.options.after.t = "string"

-----------------------------------------------------------------------------
(* What the observations say about a run *)

\* Some invocation completed by throwing.
SomeThrew == \E k \in 1..Len(finished) : finished[k].threw

\* The invocations that threw, as positions of the finished log.
ThrowPositions == { k \in 1..Len(finished) : finished[k].threw }

\* Index of the last step that threw.
LastThrownIndex ==
    finished[CHOOSE k \in ThrowPositions : \A m \in ThrowPositions : m <= k].index

\* Source index i was invoked.
WasStarted(i) == \E j \in 1..Len(started) : started[j] = i

\* How often source index i was invoked.
TimesStarted(i) == Cardinality({ j \in 1..Len(started) : started[j] = i })

DefaultPolicy(step) == step.on = Undefined \/ step.on = "success"

\* No step after source index i has on: "failure" or on: "always".
NoHandlerAfter(i) ==
    \A k \in (i + 2)..Len(steps) : steps[k].on \notin {"failure", "always"}

-----------------------------------------------------------------------------
(* Claims about Workflow.run *)

\* C1: once an executed step has thrown, the loop passes over every later
\* step whose `on` is unset or "success": the step is not invoked, and the
\* recorded result and the recorded failure stay as they were.
C1_DefaultStepsSkippedAfterThrow ==
    [][ (pc = "loop" /\ index < Len(steps) /\ SomeThrew /\ DefaultPolicy(CurrentStep))
        => /\ index' = index + 1
           /\ pc' = "loop"
           /\ UNCHANGED <<result, caughtError, errorStep, started, finished>> ]_vars

\* C1 witness: a default-policy step that follows a throw has been passed
\* over without being invoked.
C1_Witness ==
    /\ pc = "loop"
    /\ index > 0
    /\ DefaultPolicy(steps[index])
    /\ ~WasStarted(index - 1)
    /\ \E k \in ThrowPositions : finished[k].index < index - 1

\* C2: a step with on: "failure" is invoked only if an earlier step of the
\* same run has already thrown.
C2_FailureStepOnlyAfterThrow ==
    \A j \in 1..Len(started) :
        steps[started[j] + 1].on = "failure"
            => \E k \in ThrowPositions : finished[k].index < started[j]

\* C3: when several executed steps throw, the failed Result names the index
\* and the error of the last step that threw.
C3_LastFailureReported ==
    (pc = "returned" /\ SomeThrew)
        => /\ output.status = "failed"
           /\ output.step = LastThrownIndex
           /\ output.error = ProcessError(steps[LastThrownIndex + 1].out.value)

\* C3 witness: a run has returned in which two steps threw different values.
C3_Witness ==
    /\ pc = "returned"
    /\ \E k, m \in ThrowPositions :
          /\ k < m
          /\ steps[finished[k].index + 1].out.value # steps[finished[m].index + 1].out.value

\* C4: the Result is failed if and only if some executed step threw, also
\* when later on: "failure" / on: "always" steps return normally; and a
\* recorded failure is never cleared during the run.
C4_FailureNeverCleared ==
    /\ (pc \in {"loop", "running", "returned"} /\ SomeThrew) => caughtError # Null
    /\ pc = "returned" => (output.status = "failed" <=> SomeThrew)

\* C4 witness: a run has returned in which a step threw and a later step
\* returned normally.
C4_Witness ==
    /\ pc = "returned"
    /\ \E k \in ThrowPositions :
          \E m \in 1..Len(finished) : m > k /\ ~finished[m].threw

\* C5: if the step at index i throws and no later step has on: "failure" or
\* on: "always", the Result is failed with step i and that step's error, and
\* no step after i is executed.
C5_FailureWithoutHandlers ==
    pc = "returned" =>
        \A k \in ThrowPositions :
            LET i == finished[k].index
            IN NoHandlerAfter(i)
                 => /\ output = [status |-> "failed", step |-> i,
                                 error |-> ProcessError(steps[i + 1].out.value)]
                    /\ \A j \in 1..Len(started) : started[j] <= i

\* C5 witness: a run has returned in which a step threw and only
\* default-policy steps, at least one, came after it.
C5_Witness ==
    /\ pc = "returned"
    /\ \E k \in ThrowPositions :
          /\ finished[k].index + 1 < Len(steps)
          /\ NoHandlerAfter(finished[k].index)

\* C6: when no step of the list throws, the Result is success with the
\* return value of the last executed step; undefined for the empty list.
C6_SuccessCarriesLastReturn ==
    (pc = "returned" /\ \A k \in 1..Len(steps) : steps[k].out.kind = "return")
        => output = [status |-> "success",
                     result |-> IF finished = <<>> THEN Undefined
                                ELSE steps[finished[Len(finished)].index + 1].out.value]

\* C6 witness: a run without throws has returned after executing steps
\* with different return values.
C6_Witness ==
    /\ pc = "returned"
    /\ \A k \in 1..Len(steps) : steps[k].out.kind = "return"
    /\ Len(finished) >= 2
    /\ steps[finished[1].index + 1].out.value
         # steps[finished[Len(finished)].index + 1].out.value

\* C7: a step with on: "always" is executed exactly once in every run,
\* whether or not an earlier step has thrown.
C7_AlwaysStepRunsOnce ==
    \A i \in 0..(Len(steps) - 1) :
        steps[i + 1].on = "always"
            => /\ TimesStarted(i) <= 1
               /\ (pc = "returned" \/ (pc = "loop" /\ index > i)) => TimesStarted(i) = 1

\* C7 witness: a run has returned that executed an on: "always" step after
\* an earlier step threw.
C7_Witness ==
    /\ pc = "returned"
    /\ \E k \in ThrowPositions :
          \E i \in 0..(Len(steps) - 1) :
              i > finished[k].index /\ steps[i + 1].on = "always" /\ WasStarted(i)

C9_SequentialAscendingOrder ==
    /\ \A j, k \in 1..Len(started) : j < k => started[j] < started[k]
    /\ Len(finished) <= Len(started)
    /\ \A k \in 1..Len(finished) : finished[k].index = started[k]
    /\ Len(started) - Len(finished) = (IF pc = "running" THEN 1 ELSE 0)

\* C9 witness: a second step is running after the first one completed.
C9_Witness ==
    /\ pc = "running"
    /\ Len(started) >= 2
    /\ Len(finished) = Len(started) - 1


\* The indices of the steps of `list` whose name matches the option's
\* pattern, ascending.
RECURSIVE MatchingIndices(_, _, _)
MatchingIndices(list, option, from) ==
    IF list = <<>> THEN <<>>
    ELSE (IF NameMatches(Head(list), option) THEN <<from>> ELSE <<>>)
         \o MatchingIndices(Tail(list), option, from + 1)

\* The indices one before / after option stands for.
OptionIndices(list, option) ==
    IF option.t = "undefined" THEN <<>>
    ELSE IF option.t = "number" THEN <<option.n>>
    ELSE MatchingIndices(list, option, 0)

\* The indices of the points of `points` that have position `pos`, in order.
IndicesAt(points, pos) ==
    LET Has(p) == p.pos = pos
        kept == SelectSeq(points, Has)
    IN [k \in 1..Len(kept) |-> kept[k].index]

FirstN(s, n) == SubSeq(s, 1, n)

LastN(s, n) == SubSeq(s, Len(s) - n + 1, Len(s))

\* |n|
Abs(n) == IF n < 0 THEN 0 - n ELSE n

\* C12: the multi option filters the merged, sorted point list: undefined
\* or true keeps all points, false the first one, n > 0 the first
\* min(n, count), n < 0 the last min(|n|, count), and 0 none.
C12_MultiFilter ==
    (call.op = "addStep" /\ ~NoKeys(call.options)) =>
        LET multi == call.options.multi
            count == Len(call.sorted)
        IN call.points =
             CASE multi.t = "undefined" -> call.sorted
               [] multi.t = "boolean" /\ multi.b -> call.sorted
               [] multi.t = "boolean" /\ ~multi.b -> FirstN(call.sorted, Min(1, count))
               [] multi.t = "number" /\ multi.n > 0 ->
                    FirstN(call.sorted, Min(multi.n, count))
               [] multi.t = "number" /\ multi.n < 0 ->
                    LastN(call.sorted, Min(Abs(multi.n), count))
               [] multi.t = "number" /\ multi.n = 0 -> <<>>

\* C12 witness: a negative multi kept the last points of a longer list that
\* merges before- and after-points.
C12_Witness ==
    /\ call.op = "addStep"
    /\ call.options.multi.t = "number"
    /\ call.options.multi.n < 0
    /\ Len(call.sorted) > Abs(call.options.multi.n)
    /\ \E i, j \in 1..Len(call.sorted) : call.sorted[i].pos # call.sorted[j].pos
    /\ call.points # <<>>
    /\ call.points[Len(call.points)] = call.sorted[Len(call.sorted)]


\* addStep was called with this one numeric position option and nothing else.
NumericCall(key) ==
    /\ call.op = "addStep"
    /\ call.options.multi = Absent
    /\ call.options[key].t = "number"
    /\ call.options[IF key = "before" THEN "after" ELSE "before"] = Absent

\* Source index k is an index of the list.
InRange(k, list) == 0 <= k /\ k < Len(list)

\* C13: for 0 <= k < len, addStep(S, {before: k}) puts S immediately before
\* the original step k and addStep(S, {after: k}) immediately after it; the
\* original steps keep their order.
C13_NumericInsertion ==
    LET old == call.before.steps
    IN /\ (NumericCall("before") /\ InRange(call.options.before.n, old))
            => blueprint.steps = SubSeq(old, 1, call.options.before.n)
                                   \o call.steps
                                   \o SubSeq(old, call.options.before.n + 1, Len(old))
       /\ (NumericCall("after") /\ InRange(call.options.after.n, old))
            => blueprint.steps = SubSeq(old, 1, call.options.after.n + 1)
                                   \o call.steps
                                   \o SubSeq(old, call.options.after.n + 2, Len(old))

\* C13 witness: two steps were inserted after index 1 of a list of three.
C13_Witness ==
    /\ NumericCall("after")
    /\ call.options.after.n = 1
    /\ Len(call.before.steps) = 3
    /\ Len(call.steps) = 2
    /\ blueprint.steps[3] = call.steps[1]

\* C14: addStep without options, or with an options object without keys,
\* appends the given steps in their order at the end of the list, the empty
\* list included.
C14_DefaultAppends ==
    (call.op = "addStep" /\ NoKeys(call.options))
        => blueprint.steps = call.before.steps \o call.steps

\* C14 witness: two steps were appended to a non-empty list without options.
C14_Witness ==
    /\ call.op = "addStep"
    /\ NoKeys(call.options)
    /\ call.before.steps # <<>>
    /\ Len(call.steps) = 2
    /\ Len(blueprint.steps) = Len(call.before.steps) + 2


\* C15: addStep with a numeric before or after index outside the list
\* (negative, or at least the list length) leaves the step list unchanged.
C15_OutOfRangeIsNoOp ==
    /\ (NumericCall("before") /\ ~InRange(call.options.before.n, call.before.steps))
          => blueprint.steps = call.before.steps
    /\ (NumericCall("after") /\ ~InRange(call.options.after.n, call.before.steps))
          => blueprint.steps = call.before.steps

\* Every position option that is given is a pattern matching no step, and
\* at least one is given.
NothingMatches ==
    /\ call.options.before.t \in {"undefined", "string"}
    /\ call.options.after.t \in {"undefined", "string"}
    /\ call.options.before.t = "string" \/ call.options.after.t = "string"
    /\ \A k \in 1..Len(call.before.steps) :
          /\ ~NameMatches(call.before.steps[k], call.options.before)
          /\ ~NameMatches(call.before.steps[k], call.options.after)

\* C16: addStep whose before / after patterns match no step name (the
\* empty pattern included), or whose multi is 0, leaves the step list as
\* it was.
C16_NoMatchOrMultiZeroIsNoOp ==
    (call.op = "addStep" /\ (NothingMatches \/ call.options.multi = Num(0)))
        => blueprint.steps = call.before.steps

\* C16 witness: addStep was called with multi: 0 and a pattern that matches
\* steps of the list.
C16_Witness ==
    /\ call.op = "addStep"
    /\ call.options.multi = Num(0)
    /\ call.options.before.t = "string"
    /\ call.sorted # <<>>
    /\ blueprint.steps = call.before.steps

\* C16, the other case: the empty pattern was given for a list of named
\* steps and nothing was inserted.
C16_EmptyPatternReached ==
    /\ call.op = "addStep"
    /\ call.options.after = Str(<<>>)
    /\ call.options.before = Absent
    /\ \E k \in 1..Len(call.before.steps) : call.before.steps[k].name.defined
    /\ blueprint.steps = call.before.steps


-----------------------------------------------------------------------------
(* popStep and shiftStep *)

\* The count of a popStep / shiftStep call: 1 when none was given.
CallCount == IF call.n = Absent THEN 1 ELSE call.n.n

\* C19: for a step list of length len and n >= 0 (n is 1 when omitted),
\* popStep(n) leaves exactly the first max(0, len - n) steps and
\* shiftStep(n) exactly the steps from index min(n, len) on, in their
\* original order; with n > len the list becomes empty.
C19_PopShiftCounts ==
    (call.op \in {"popStep", "shiftStep"} /\ CallCount >= 0) =>
        LET old == call.before.steps
            len == Len(old)
        IN /\ call.op = "popStep" =>
                blueprint.steps = SubSeq(old, 1, Max(0, len - CallCount))
           /\ call.op = "shiftStep" =>
                blueprint.steps = SubSeq(old, Min(CallCount, len) + 1, len)
           /\ CallCount > len => blueprint.steps = <<>>

\* popStep is asked for more steps than a non-empty list has.
C19_Witness ==
    /\ call.op = "popStep"
    /\ Len(call.before.steps) = MaxLen
    /\ CallCount > Len(call.before.steps)
    /\ blueprint.steps = <<>>

\* shiftStep without a count takes one step off the front.
C19_ShiftDefaultReached ==
    /\ call.op = "shiftStep"
    /\ call.n = Absent
    /\ Len(call.before.steps) = MaxLen
    /\ blueprint.steps = Tail(call.before.steps)

-----------------------------------------------------------------------------
(* removeStep *)

\* The step is one removeStep was asked to remove.
Selected(step, target) ==
    \/ NameMatches(step, target)
    \/ /\ target.t = "array"
       /\ \E k \in DOMAIN target.steps : target.steps[k] = step

\* C20: removeStep removes exactly the selected steps and keeps the others
\* in their original order: with a pattern, every step that has a name
\* matching it (never an unnamed step); with an array, every occurrence of
\* each step that is a member of the array.
C20_RemoveExactlySelected ==
    call.op = "removeStep" =>
        LET Kept(step) == ~Selected(step, call.target)
        IN /\ blueprint.steps = SelectSeq(call.before.steps, Kept)
           /\ call.target.t = "string" =>
                \A k \in DOMAIN call.before.steps :
                    ~call.before.steps[k].name.defined =>
                        \E m \in DOMAIN blueprint.steps :
                            blueprint.steps[m] = call.before.steps[k]

\* The pattern "*" removes two named steps and leaves the unnamed step
\* between them.
C20_Witness ==
    /\ call.op = "removeStep"
    /\ call.target = Str(<<"*">>)
    /\ Len(call.before.steps) = 3
    /\ call.before.steps[1].name.defined
    /\ ~call.before.steps[2].name.defined
    /\ call.before.steps[3].name.defined
    /\ blueprint.steps = <<call.before.steps[2]>>

\* An array removes both occurrences of its member and keeps the rest.
C20_ArrayReached ==
    /\ call.op = "removeStep"
    /\ call.target.t = "array"
    /\ Len(call.target.steps) = 1
    /\ Len(call.before.steps) = 3
    /\ call.before.steps[1] = call.target.steps[1]
    /\ call.before.steps[3] = call.target.steps[1]
    /\ call.before.steps[2] # call.target.steps[1]
    /\ blueprint.steps = <<call.before.steps[2]>>

-----------------------------------------------------------------------------
(* What a Builder call leaves alone *)

StepListOps ==
    {"pushStep", "unshiftStep", "addStep", "popStep", "shiftStep", "removeStep",
     "clearSteps"}

ContextOps == {"setContext", "mergeContext", "updateContext"}

\* C17: a caller that holds the blueprint it passed to a Builder operation
\* still observes, after the call, the steps, conclude and userContext the
\* blueprint had before the call.
C17_PassedBlueprintUntouched ==
    call.op # "createBlueprint" =>
        /\ blueprint.steps = call.before.steps
        /\ blueprint.conclude = call.before.conclude
        /\ blueprint.userContext = call.before.userContext

\* C18: each Builder operation changes only the field it names: the
\* step-list operations leave conclude and userContext unchanged,
\* setConclude leaves steps and userContext unchanged, and setContext,
\* mergeContext and updateContext leave steps and conclude unchanged.
C18_OnlyNamedFieldChanges ==
    /\ call.op \in StepListOps =>
          /\ blueprint.conclude = call.before.conclude
          /\ blueprint.userContext = call.before.userContext
    /\ call.op = "setConclude" =>
          /\ blueprint.steps = call.before.steps
          /\ blueprint.userContext = call.before.userContext
    /\ call.op \in ContextOps =>
          /\ blueprint.steps = call.before.steps
          /\ blueprint.conclude = call.before.conclude

\* clearSteps empties a non-empty list of a blueprint whose conclude and
\* user context are not the defaults, and both are still there.
C18_Witness ==
    /\ call.op = "clearSteps"
    /\ call.before.steps # <<>>
    /\ blueprint.steps = <<>>
    /\ blueprint.conclude = OtherConclude
    /\ DOMAIN blueprint.userContext = CtxKeys

\* A context operation changes the user context of a blueprint with steps.
C18_ContextChangeReached ==
    /\ call.op \in ContextOps
    /\ blueprint.userContext # call.before.userContext
    /\ blueprint.steps # <<>>
    /\ blueprint.conclude = OtherConclude

-----------------------------------------------------------------------------
(* The error of a failed Result *)

\* The value thrown by the step the failed Result names.
ThrownByReportedStep == steps[output.step + 1].out.value

\* C30: when the step the failed Result names threw a value that is not an
\* Error, the Result carries an Error whose message is the string form of
\* that value; when it threw an Error, the Result carries that same Error.
C30_ErrorNormalized ==
    (pc = "returned" /\ output.status = "failed") =>
        /\ steps[output.step + 1].out.kind = "throw"
        /\ IF ThrownByReportedStep.kind = "Error"
           THEN output.error = ThrownByReportedStep
           ELSE /\ output.error.kind = "Error"
                /\ output.error.message = ThrownByReportedStep.value

\* A run failed by a thrown string, reported as an Error with that message.
C30_Witness ==
    /\ pc = "returned"
    /\ output.status = "failed"
    /\ ThrownByReportedStep.kind = "string"
    /\ output.error.message = "oops"

C30_ErrorKeptReached ==
    /\ pc = "returned"
    /\ output.status = "failed"
    /\ ThrownByReportedStep.kind = "Error"
    /\ output.error.id = "E1"

-----------------------------------------------------------------------------
(* setContext, mergeContext, updateContext *)

\* The context a call was given; the empty context when it was given none.
GivenContext(c) == IF c.context.given THEN c.context.value ELSE EmptyContext

\* C21: setContext is a full replacement: after setContext(ctx) the
\* userContext has exactly the keys and values of ctx and none of the
\* previous keys, and setContext(ctx) followed by setContext() yields an
\* empty context whatever ctx was.
C21_SetContextReplaces ==
    call.op = "setContext" =>
        /\ call.context.given =>
              /\ DOMAIN blueprint.userContext = DOMAIN call.context.value
              /\ \A k \in DOMAIN call.context.value :
                    blueprint.userContext[k] = call.context.value[k]
        /\ (~call.context.given /\ call.prev.op = "setContext" /\ call.prev.context.given) =>
              DOMAIN blueprint.userContext = {}

\* setContext({k2: ...}) on a context with key k1 only: k1 is gone.
C21_Witness ==
    /\ call.op = "setContext"
    /\ call.context.given
    /\ DOMAIN call.before.userContext = {"k1"}
    /\ DOMAIN call.context.value = {"k2"}
    /\ DOMAIN blueprint.userContext = {"k2"}

\* setContext(ctx) with a non-empty ctx, then setContext().
C21_RoundTripReached ==
    /\ call.op = "setContext"
    /\ ~call.context.given
    /\ call.prev.op = "setContext"
    /\ call.prev.context.given
    /\ DOMAIN call.prev.context.value = CtxKeys
    /\ DOMAIN blueprint.userContext = {}

\* C22: mergeContext(ctx) yields a userContext whose key set is the union
\* of the old keys and ctx's keys, where every key of ctx has ctx's value
\* and every other key keeps its old value; mergeContext() yields a context
\* with the same keys and values as before.
C22_MergeContext ==
    call.op = "mergeContext" =>
        LET old == call.before.userContext
            new == blueprint.userContext
        IN IF call.context.given
           THEN /\ DOMAIN new = (DOMAIN old) \cup (DOMAIN call.context.value)
                /\ \A k \in DOMAIN call.context.value : new[k] = call.context.value[k]
                /\ \A k \in (DOMAIN old) \ (DOMAIN call.context.value) : new[k] = old[k]
           ELSE /\ DOMAIN new = DOMAIN old
                /\ \A k \in DOMAIN old : new[k] = old[k]

\* A merge that adds k2 and overwrites k1 with another value.
C22_Witness ==
    /\ call.op = "mergeContext"
    /\ call.context.given
    /\ DOMAIN call.before.userContext = {"k1"}
    /\ DOMAIN call.context.value = CtxKeys
    /\ call.context.value["k1"] # call.before.userContext["k1"]
    /\ blueprint.userContext = call.context.value

\* C23: for every blueprint and every partial context p, updateContext(p)
\* and mergeContext(p) produce the same resulting userContext.
C23_UpdateEqualsMerge ==
    /\ call.op = "updateContext" =>
          blueprint.userContext
              = mergeContext(call.before, call.context).userContext
    /\ (call.op = "mergeContext" /\ call.context.given) =>
          blueprint.userContext
              = updateContext(call.before, call.context.value).userContext

\* updateContext with a key the context did not have and a changed value.
C23_Witness ==
    /\ call.op = "updateContext"
    /\ DOMAIN call.before.userContext = {"k1"}
    /\ DOMAIN call.context.value = CtxKeys
    /\ call.context.value["k1"] # call.before.userContext["k1"]
    /\ blueprint.userContext = call.context.value

-----------------------------------------------------------------------------
(* WorkflowRunner and WorkflowAsStep: a run of a blueprint whose steps are  *)
(* handed the RuntimeContext and the user context, and a blueprint wrapped  *)
(* as a step of another blueprint.                                          *)

\* RuntimeContext: { status, previousStepOutput, error }, as a run without a
\* given context starts with it.
FreshRuntimeContext ==
    [status |-> "success", previousStepOutput |-> Undefined, error |-> Null]

\* A RuntimeContext whose status a caller has set to "failed".
FailedRuntimeContext ==
    [status |-> "failed", previousStepOutput |-> Undefined, error |-> Null]

\* What a run function does with (runtimeContext, userContext): besides
\* returning a value or throwing, it writes a key of the user context and
\* returns the value, returns a key of the user context, or is the run of a
\* WorkflowAsStep.
Write(k, v) == [kind |-> "write", key |-> k, value |-> v]

Read(k) == [kind |-> "read", key |-> k]

RunWorkflow == [kind |-> "workflow"]

Returns(v) == [kind |-> "return", value |-> v]

Throws(t) == [kind |-> "throw", value |-> t]

StepOf(o, b) == [name |-> NoName, on |-> o, out |-> b]

\* The Error an inner step throws.
InnerError == [kind |-> "Error", id |-> "E2", message |-> "inner"]

\* The steps of the blueprint that is run.
OuterSteps ==
    { StepOf(Undefined, Returns("a")),
      StepOf("failure", Returns("a")),
      StepOf("always", Throws([kind |-> "Error", id |-> "E1", message |-> "boom"])),
      StepOf(Undefined, Write("k1", "b")),
      StepOf("always", Read("k1")),
      [name |-> Named(<<>>), on |-> "success", out |-> RunWorkflow],
      [name |-> Named(<<>>), on |-> "always", out |-> RunWorkflow] }

\* The steps of the wrapped blueprint.
InnerSteps ==
    { StepOf(Undefined, Returns("b")),
      StepOf(Undefined, Throws(InnerError)),
      StepOf(Undefined, Write("k2", "b")) }

\* An observation: what the runner did at a step. status and previous are
\* the RuntimeContext the step was decided on, context the user context it
\* was handed.
Event(run, i, event, rt, uc, value, error) ==
    [run |-> run, index |-> i, event |-> event, status |-> rt.status,
     previous |-> rt.previousStepOutput, context |-> uc,
     value |-> value, error |-> error]

\* The continuation policy on the run's RuntimeContext: a default or
\* "success" step is skipped once the status is "failed", a "failure" step
\* is skipped until then, an "always" step never.
RunnerShouldSkip(step, rt) ==
    \/ (step.on = Undefined \/ step.on = "success") /\ rt.status = "failed"
    \/ step.on = "failure" /\ rt.status # "failed"

\* conclude is run before the step list.
RunOrderConcludeFirst(bp) == <<bp.conclude>> \o bp.steps

\* The steps in the order they are run: the step list, then conclude.
RunOrder(bp) == bp.steps \o <<bp.conclude>>

\* A return value is not put on the RuntimeContext.
RecordReturnNowhere(rt, value) == rt

\* The runner puts a step's return value on the RuntimeContext for the next
\* step.
RecordReturn(rt, value) == [rt EXCEPT !.previousStepOutput = value]

\* The element of a one-element set: The({ F(x) : x \in {e} }) is F(e)
\* with e evaluated once.
The(S) == CHOOSE v \in S : TRUE

RECURSIVE RunnerLoop(_, _, _, _)

\* new WorkflowRunner(blueprint, runtimeContext).run()
RunnerRun(bp, rt, wrapped, log, run) ==
    The({ [output |-> RunOutput(final.result, final.caughtError, final.errorStep),
           bp |-> final.bp, rt |-> final.rt, wrapped |-> final.wrapped,
           log |-> final.log] :
          final \in { RunnerLoop(RunOrder(bp), 0,
                                 [bp |-> bp, rt |-> rt, wrapped |-> wrapped,
                                  result |-> Undefined, caughtError |-> Null,
                                  errorStep |-> -1, log |-> log], run) } })

\* The wrapped blueprint of an adapter that wraps nothing further.
NoWrapped == NoAdapter.blueprint

\* The inner failure's error is wrapped in a new Error.
WorkflowAsStepRunWrapsError(wrapped, rt, uc, log) ==
    The({ [outcome |-> IF r.output.status = "success"
                       THEN Returns(r.output.result)
                       ELSE Throws([kind |-> "Error", id |-> "new",
                                    message |-> String(r.output.error)]),
           inner |-> r.output, wrapped |-> r.bp, rt |-> r.rt, log |-> r.log] :
          r \in { RunnerRun(mergeContext(wrapped, Given(uc)), rt, NoWrapped,
                            log, "inner") } })

\* An inner failure is swallowed: the step returns undefined.
WorkflowAsStepRunSwallows(wrapped, rt, uc, log) ==
    The({ [outcome |-> IF r.output.status = "success"
                       THEN Returns(r.output.result)
                       ELSE Returns(Undefined),
           inner |-> r.output, wrapped |-> r.bp, rt |-> r.rt, log |-> r.log] :
          r \in { RunnerRun(mergeContext(wrapped, Given(uc)), rt, NoWrapped,
                            log, "inner") } })

\* WorkflowAsStep.run(runtimeContext, userContext):
\*   blueprint = WorkflowBuilder.mergeContext(this._blueprint, userContext);
\*   result = new WorkflowRunner(blueprint, runtimeContext).run();
\*   if (result.status === "success") return result.result;
\*   throw result.error;
WorkflowAsStepRun(wrapped, rt, uc, log) ==
    The({ [outcome |-> IF r.output.status = "success"
                       THEN Returns(r.output.result)
                       ELSE Throws(r.output.error),
           inner |-> r.output, wrapped |-> r.bp, rt |-> r.rt, log |-> r.log] :
          r \in { RunnerRun(mergeContext(wrapped, Given(uc)), rt, NoWrapped,
                            log, "inner") } })

\* step.run(runtimeContext, userContext) of the step the loop is at.
InvokeStep(step, s) ==
    LET uc == s.bp.userContext
        Plain(outcome, bp) ==
            [outcome |-> outcome, bp |-> bp, rt |-> s.rt,
             wrapped |-> s.wrapped, log |-> s.log]
    IN CASE step.out.kind \in {"return", "throw"} -> Plain(step.out, s.bp)
         [] step.out.kind = "write" ->
              Plain(Returns(step.out.value),
                    [s.bp EXCEPT !.userContext =
                        Spread(uc, [k \in {step.out.key} |-> step.out.value])])
         [] step.out.kind = "read" ->
              Plain(Returns(IF step.out.key \in DOMAIN uc THEN uc[step.out.key]
                            ELSE Undefined), s.bp)
         [] step.out.kind = "workflow" ->
              The({ [outcome |-> r.outcome, bp |-> s.bp, rt |-> r.rt,
                     wrapped |-> r.wrapped, log |-> r.log] :
                    r \in { WorkflowAsStepRun(s.wrapped, s.rt, uc, s.log) } })

\* One round of the runner's loop, at the step of index i: the step is
\* skipped, or it is run and its return value or its error is recorded, in
\* the run and on the RuntimeContext.
RunnerStep(step, i, s, run) ==
    IF RunnerShouldSkip(step, s.rt)
    THEN [s EXCEPT !.log = Append(@, Event(run, i, "skip", s.rt, s.bp.userContext,
                                           Undefined, Null))]
    ELSE The({ IF r.outcome.kind = "throw"
               THEN [bp |-> r.bp, wrapped |-> r.wrapped,
                     rt |-> [r.rt EXCEPT !.status = "failed",
                                         !.error = ProcessError(r.outcome.value)],
                     result |-> s.result,
                     caughtError |-> ProcessError(r.outcome.value),
                     errorStep |-> i,
                     log |-> Append(r.log, Event(run, i, "throw", s.rt,
                                                 s.bp.userContext, Undefined,
                                                 ProcessError(r.outcome.value)))]
               ELSE [bp |-> r.bp, wrapped |-> r.wrapped,
                     rt |-> RecordReturn(r.rt, r.outcome.value),
                     result |-> r.outcome.value,
                     caughtError |-> s.caughtError, errorStep |-> s.errorStep,
                     log |-> Append(r.log, Event(run, i, "return", s.rt,
                                                 s.bp.userContext,
                                                 r.outcome.value, Null))] :
               r \in { InvokeStep(step, s) } })

\* The loop of the runner over the steps from index i on.
RunnerLoop(list, i, s, run) ==
    IF i = Len(list) THEN s
    ELSE The({ RunnerLoop(list, i + 1, t, run) :
               t \in { RunnerStep(list[i + 1], i, s, run) } })

\* The conclude step of the wrapped blueprint.
InnerConclude == StepOf(Undefined, Returns("c"))

\* The blueprints a WorkflowAsStep wraps.
WrappedBlueprints ==
    [steps : SeqsUpTo(InnerSteps, MaxInner),
     conclude : {InnerConclude},
     userContext : {[k \in {"k2"} |-> "a"]}]

\* A Workflow on a blueprint, one of whose steps may be the WorkflowAsStep.
InitRunner ==
    /\ blueprint \in [steps : SeqsUpTo(OuterSteps, MaxSteps),
                      conclude : {OtherConclude},
                      userContext : {[k \in {"k1"} |-> "a"]}]
    /\ asStep \in [blueprint : WrappedBlueprints]
    /\ workflows = <<>>
    /\ arrays = <<>>
    /\ call = [op |-> "createBlueprint", left |-> 0]
    /\ steps = <<>>
    /\ pc = "idle"
    /\ index = 0
    /\ result = Undefined
    /\ caughtError = Null
    /\ errorStep = -1
    /\ output = NoOutput
    /\ started = <<>>
    /\ finished = <<>>

\* Workflow.run(): new WorkflowRunner(this._blueprint).run()
WorkflowRun ==
    /\ pc = "idle"
    /\ LET r == RunnerRun(blueprint, FreshRuntimeContext, asStep.blueprint,
                          <<>>, "outer")
       IN /\ output' = r.output
          /\ blueprint' = r.bp
          /\ asStep' = [blueprint |-> r.wrapped]
          /\ finished' = r.log
          /\ call' = [op |-> "run", left |-> 0, before |-> blueprint,
                      wrappedBefore |-> asStep.blueprint,
                      runtimeContext |-> r.rt]
    /\ pc' = "returned"
    /\ UNCHANGED <<steps, index, result, caughtError, errorStep, started, workflows, arrays>>

NextRunner ==
    \/ WorkflowRun

SpecRunner == InitRunner /\ [][NextRunner]_vars

\* A WorkflowAsStep a caller is about to run directly.
InitAsStep ==
    /\ asStep \in [blueprint : WrappedBlueprints]
    /\ workflows = <<>>
    /\ arrays = <<>>
    /\ blueprint = NoWrapped
    /\ call = [op |-> "createBlueprint", left |-> 0]
    /\ steps = <<>>
    /\ pc = "idle"
    /\ index = 0
    /\ result = Undefined
    /\ caughtError = Null
    /\ errorStep = -1
    /\ output = NoOutput
    /\ started = <<>>
    /\ finished = <<>>

\* The user contexts a caller hands to WorkflowAsStep.run.
GivenUserContexts ==
    { EmptyContext, [k \in {"k1"} |-> "a"], [k \in {"k2"} |-> "b"],
      [k \in {"k1", "k2"} |-> "b"] }

\* instance.run(runtimeContext, userContext), called as the tests do
AsStepRun ==
    /\ pc = "idle"
    /\ \E rt \in {FreshRuntimeContext, FailedRuntimeContext},
          uc \in GivenUserContexts :
          LET r == WorkflowAsStepRun(asStep.blueprint, rt, uc, <<>>)
          IN /\ output' = r.inner
             /\ asStep' = [blueprint |-> r.wrapped]
             /\ finished' = r.log
             /\ call' = [op |-> "WorkflowAsStep.run", left |-> 0,
                         wrappedBefore |-> asStep.blueprint,
                         given |-> rt, userContext |-> uc,
                         outcome |-> r.outcome, runtimeContext |-> r.rt]
    /\ pc' = "returned"
    /\ UNCHANGED <<steps, index, result, caughtError, errorStep, started, blueprint, workflows, arrays>>

NextAsStep ==
    \/ AsStepRun

SpecAsStep == InitAsStep /\ [][NextAsStep]_vars

-----------------------------------------------------------------------------
(* WorkflowAsStep.run *)

\* C24: WorkflowAsStep.run returns the inner run's result when the inner run
\* succeeds, and when the inner run fails it throws the inner failure's
\* error itself, not wrapped in another object or error.
C24_AsStepReturnsOrRethrows ==
    call.op = "WorkflowAsStep.run" =>
        IF output.status = "success"
        THEN call.outcome = Returns(output.result)
        ELSE /\ output.status = "failed"
             /\ call.outcome.kind = "throw"
             /\ call.outcome.value = output.error

\* The inner run failed on the Error an inner step threw, and the adapter
\* threw that Error.
C24_Witness ==
    /\ call.op = "WorkflowAsStep.run"
    /\ output.status = "failed"
    /\ output.error = InnerError
    /\ call.outcome = Throws(InnerError)

\* The inner run succeeded with conclude's value, and the adapter returned it.
C24_ReturnReached ==
    /\ call.op = "WorkflowAsStep.run"
    /\ output.status = "success"
    /\ Len(call.wrappedBefore.steps) = MaxInner
    /\ call.outcome = Returns("c")

-----------------------------------------------------------------------------
(* A WorkflowAsStep inside a run *)

\* The step the outer run decided on at log position n.
OuterStep(n) == RunOrder(call.before)[finished[n].index + 1]

\* The log positions of the inner run that ended right before position n.
InnerBlock(n) ==
    { m \in 1..(n - 1) : \A q \in m..(n - 1) : finished[q].run = "inner" }

\* At log position n the outer run ran the WorkflowAsStep, and the inner
\* run it started failed: one of its steps threw.
AdapterFailedAt(n) ==
    /\ finished[n].run = "outer"
    /\ finished[n].event # "skip"
    /\ OuterStep(n).out = RunWorkflow
    /\ \E m \in InnerBlock(n) : finished[m].event = "throw"

\* The later outer decisions.
OuterAfter(n) == { m \in (n + 1)..Len(finished) : finished[m].run = "outer" }

\* C25: when the WorkflowAsStep at index i of the outer step list has a
\* failing inner run, the outer run treats index i as a throwing step: the
\* outer Result is failed naming index i unless a later outer step throws,
\* later outer steps with the default policy are skipped, and later outer
\* on: "failure" / on: "always" steps still execute.
C25_InnerFailureFailsOuterStep ==
    call.op = "run" =>
        \A n \in DOMAIN finished :
            AdapterFailedAt(n) =>
                /\ finished[n].event = "throw"
                /\ output.status = "failed"
                /\ (\A m \in OuterAfter(n) : finished[m].event # "throw") =>
                      /\ output.step = finished[n].index
                      /\ output.error = finished[n].error
                      /\ \E m \in InnerBlock(n) :
                            /\ finished[m].event = "throw"
                            /\ finished[m].error = output.error
                /\ \A m \in OuterAfter(n) :
                      /\ OuterStep(m).on \in {Undefined, "success"} =>
                            finished[m].event = "skip"
                      /\ OuterStep(m).on \in {"failure", "always"} =>
                            finished[m].event # "skip"

\* The adapter is the first outer step and its inner run fails; a default
\* step after it is skipped, an on: "failure" step after it is run, and the
\* Result names index 0.
C25_Witness ==
    /\ call.op = "run"
    /\ Len(call.before.steps) = 3
    /\ call.before.steps[1].out = RunWorkflow
    /\ call.before.steps[2] = StepOf(Undefined, Returns("a"))
    /\ call.before.steps[3] = StepOf("failure", Returns("a"))
    /\ \E n \in DOMAIN finished :
          /\ AdapterFailedAt(n)
          /\ finished[n].index = 0
          /\ \E m \in OuterAfter(n) : finished[m].index = 1 /\ finished[m].event = "skip"
          /\ \E m \in OuterAfter(n) : finished[m].index = 2 /\ finished[m].event = "return"
    /\ output = [status |-> "failed", step |-> 0, error |-> InnerError]

\* A later outer step throws and the Result names it instead.
C25_LaterThrowReached ==
    /\ call.op = "run"
    /\ \E n \in DOMAIN finished :
          /\ AdapterFailedAt(n)
          /\ finished[n].index = 0
          /\ \E m \in OuterAfter(n) : finished[m].event = "throw"
    /\ output.status = "failed"
    /\ output.step = 1

-----------------------------------------------------------------------------
(* The RuntimeContext and the blueprint during a run *)

\* Log position n is the first decision of an inner run.
InnerRunStartsAt(n) ==
    /\ finished[n].run = "inner"
    /\ n = 1 \/ finished[n - 1].run = "outer"

\* The positions of the inner run that log position n belongs to, up to n.
SameInnerRun(n) ==
    { m \in 1..n : \A q \in m..n : finished[q].run = "inner" }

\* C26: every run uses a RuntimeContext created fresh at its start, and the
\* inner run started by WorkflowAsStep.run does not operate on the outer
\* run's RuntimeContext: its first step is decided on a fresh context, and
\* it skips a default-policy step only after a step of the inner run threw.
C26_InnerRunHasOwnRuntimeContext ==
    call.op = "run" =>
        \A n \in DOMAIN finished :
            /\ InnerRunStartsAt(n) =>
                  /\ finished[n].status = "success"
                  /\ finished[n].previous = Undefined
            /\ (finished[n].run = "inner" /\ finished[n].event = "skip"
                /\ RunOrder(call.wrappedBefore)[finished[n].index + 1].on = Undefined) =>
                  \E m \in SameInnerRun(n) : finished[m].event = "throw"

\* No step of the blueprint or of the wrapped blueprint writes to the user
\* context.
NoStepWrites ==
    /\ \A k \in DOMAIN call.before.steps : call.before.steps[k].out.kind # "write"
    /\ \A k \in DOMAIN call.wrappedBefore.steps :
          call.wrappedBefore.steps[k].out.kind # "write"

\* C27: the blueprint is read-only during a run, also one started through
\* WorkflowAsStep.run: after the run the blueprint and the wrapped blueprint
\* hold the step list and the conclude step they had before, and the user
\* context they had before (whose contents only a step's write changes).
C27_BlueprintReadOnlyDuringRun ==
    call.op = "run" =>
        /\ blueprint.steps = call.before.steps
        /\ blueprint.conclude = call.before.conclude
        /\ asStep.blueprint.steps = call.wrappedBefore.steps
        /\ asStep.blueprint.conclude = call.wrappedBefore.conclude
        /\ NoStepWrites =>
              /\ blueprint.userContext = call.before.userContext
              /\ asStep.blueprint.userContext = call.wrappedBefore.userContext

-----------------------------------------------------------------------------
(* What the steps of a run observe *)

\* The step decided on at log position n, in the outer or the inner run.
LoggedStep(n) ==
    IF finished[n].run = "outer"
    THEN RunOrder(call.before)[finished[n].index + 1]
    ELSE RunOrder(call.wrappedBefore)[finished[n].index + 1]

\* The return value of the step that most recently returned normally
\* before the step of log position n was run; undefined when there is none.
\* (A WorkflowAsStep is logged when its run function ends, after the steps
\* of its inner run, which therefore do not come before it.)
LastReturnBefore(n) ==
    LET own == IF finished[n].run = "outer" THEN InnerBlock(n) ELSE {}
        returns == { m \in (1..(n - 1)) \ own : finished[m].event = "return" }
    IN IF returns = {} THEN Undefined
       ELSE finished[CHOOSE m \in returns : \A q \in returns : q <= m].value

\* The later log positions of the run that log position n belongs to.
LaterInSameRun(n) ==
    IF finished[n].run = "outer"
    THEN { m \in (n + 1)..Len(finished) : finished[m].run = "outer" }
    ELSE { m \in (n + 1)..Len(finished) :
             \A q \in n..m : finished[q].run = "inner" }

\* The user context of the blueprint whose run log position n belongs to,
\* as it is after the run.
ContextAfter(n) ==
    IF finished[n].run = "outer" THEN blueprint.userContext
    ELSE asStep.blueprint.userContext

\* C28: within one run, what an executed step produced is what the next
\* executed step observes: runtimeContext.previousStepOutput is the return
\* value of the most recently executed step that returned normally, and a
\* write an earlier step made to the user context is visible to every later
\* step of the same run and in the value returned at the end.
C28_StepsObservePredecessors ==
    call.op = "run" =>
        \A n \in DOMAIN finished :
            /\ finished[n].event # "skip" =>
                  finished[n].previous = LastReturnBefore(n)
            /\ (finished[n].event = "return" /\ LoggedStep(n).out.kind = "write") =>
                  LET k == LoggedStep(n).out.key
                      v == LoggedStep(n).out.value
                  IN /\ \A m \in LaterInSameRun(n) :
                           /\ k \in DOMAIN finished[m].context
                           /\ finished[m].context[k] = v
                           /\ (finished[m].event = "return"
                               /\ LoggedStep(m).out = Read(k)) =>
                                 finished[m].value = v
                     /\ k \in DOMAIN ContextAfter(n)
                     /\ ContextAfter(n)[k] = v

\* The first step writes k1, the second returns a value, and the third,
\* which reads k1, is handed the second step's value and returns what the
\* first wrote.
C28_Witness ==
    /\ call.op = "run"
    /\ call.before.steps
         = << StepOf(Undefined, Write("k1", "b")), StepOf(Undefined, Returns("a")),
              StepOf("always", Read("k1")) >>
    /\ call.before.userContext["k1"] = "a"
    /\ Len(finished) = 4
    /\ finished[3].previous = "a"
    /\ finished[3].value = "b"
    /\ blueprint.userContext["k1"] = "b"

\* No step threw during the run.
NothingThrew == \A n \in DOMAIN finished : finished[n].event # "throw"

\* The log positions at which the outer run ran its conclude step.
ConcludeRuns ==
    { n \in DOMAIN finished :
        /\ finished[n].run = "outer"
        /\ finished[n].index = Len(call.before.steps)
        /\ finished[n].event # "skip" }

-----------------------------------------------------------------------------
(* What addStep does to the steps that were there *)

\* a is b with some elements left out, the order kept.
RECURSIVE IsSubsequence(_, _)
IsSubsequence(a, b) ==
    IF a = <<>> THEN TRUE
    ELSE IF b = <<>> THEN FALSE
    ELSE IF Head(a) = Head(b) THEN IsSubsequence(Tail(a), Tail(b))
    ELSE IsSubsequence(a, Tail(b))

\* C32: addStep never removes or reorders the steps of the list, whatever the
\* options (indices out of range or negative, before and after together): the
\* list before the call is a subsequence of the list after it, and the list
\* grows by the number of insertion points kept by the multi filter times the
\* number of steps inserted.
C32_AddStepOnlyInserts ==
    call.op = "addStep" =>
        /\ IsSubsequence(call.before.steps, blueprint.steps)
        /\ Len(blueprint.steps)
             = Len(call.before.steps) + Len(call.points) * Len(call.steps)

\* before: -1 and after: len + 1 given together on a list of two steps or
\* more, two steps inserted at each of the two points.
C32_Witness ==
    /\ call.op = "addStep"
    /\ Len(call.before.steps) >= 2
    /\ call.options.before = Num(-1)
    /\ call.options.after = Num(Len(call.before.steps) + 1)
    /\ call.options.multi = Absent
    /\ Len(call.steps) = 2
    /\ Len(call.points) = 2
    /\ Len(blueprint.steps) = Len(call.before.steps) + 4

\* A pattern that matches several steps, cut down to one point by multi: -1.
C32_FilteredPatternReached ==
    /\ call.op = "addStep"
    /\ call.options.before.t = "string"
    /\ call.options.multi = Num(-1)
    /\ Len(call.sorted) >= 2
    /\ Len(call.points) = 1
    /\ Len(blueprint.steps) = Len(call.before.steps) + Len(call.steps)

\* C34: addStep with options that hold a multi key but neither before nor
\* after (such as {multi: true}) inserts nothing and leaves the step list as
\* it was; only options without any key (or no options) append at the end.
C34_MultiAloneInsertsNothing ==
    (/\ call.op = "addStep"
     /\ call.options.before = Absent
     /\ call.options.after = Absent) =>
        IF call.options.multi = Absent
        THEN blueprint.steps = call.before.steps \o call.steps
        ELSE /\ call.points = <<>>
             /\ blueprint.steps = call.before.steps

\* addStep(blueprint, steps, {multi: true}) on a list with steps.
C34_Witness ==
    /\ call.op = "addStep"
    /\ call.options = [before |-> Absent, after |-> Absent, multi |-> Bool(TRUE)]
    /\ call.before.steps # <<>>
    /\ blueprint.steps = call.before.steps

\* addStep(blueprint, steps) on a list with steps: the steps are appended.
C34_DefaultReached ==
    /\ call.op = "addStep"
    /\ call.options = [before |-> Absent, after |-> Absent, multi |-> Absent]
    /\ call.before.steps # <<>>
    /\ blueprint.steps = call.before.steps \o call.steps

-----------------------------------------------------------------------------
(* popStep and shiftStep with a negative count *)

NegativeCount == call.n # Absent /\ call.n.n < 0

\* C35: popStep and shiftStep treat a negative count differently: popStep(n)
\* with n < 0 leaves the step list unchanged, shiftStep(n) with n < 0 keeps
\* only the last min(|n|, len) steps.
C35_NegativeCounts ==
    /\ (call.op = "popStep" /\ NegativeCount) =>
           blueprint.steps = call.before.steps
    /\ (call.op = "shiftStep" /\ NegativeCount) =>
           blueprint.steps
             = LastN(call.before.steps, Min(Abs(call.n.n), Len(call.before.steps)))

\* shiftStep(blueprint, -1) on a list of three steps leaves its last step.
C35_Witness ==
    /\ call.op = "shiftStep"
    /\ call.n = Num(-1)
    /\ Len(call.before.steps) = 3
    /\ blueprint.steps = << call.before.steps[3] >>

\* popStep(blueprint, -2) on a list of two steps leaves both.
C35_PopReached ==
    /\ call.op = "popStep"
    /\ call.n = Num(-2)
    /\ Len(call.before.steps) = 2
    /\ blueprint.steps = call.before.steps

-----------------------------------------------------------------------------
(* Sequences of pushStep, unshiftStep, popStep and shiftStep calls on one   *)
(* blueprint                                                                *)

\* WorkflowBuilder.createBlueprint(steps), followed by up to MaxCalls calls
InitPushPop ==
    /\ blueprint \in { [steps |-> s, conclude |-> DefaultConclude,
                        userContext |-> EmptyContext] :
                         s \in SeqsUpTo({StepX, StepY}, MaxLen) }
    /\ call = [op |-> "createBlueprint", left |-> MaxCalls]
    /\ asStep = NoAdapter
    /\ workflows = <<>>
    /\ arrays = <<>>
    /\ steps = <<>>
    /\ pc = "idle"
    /\ index = 0
    /\ result = Undefined
    /\ caughtError = Null
    /\ errorStep = -1
    /\ output = NoOutput
    /\ started = <<>>
    /\ finished = <<>>

NextPushPop ==
    \/ BuilderPushStep
    \/ BuilderUnshiftStep
    \/ BuilderPopStep
    \/ BuilderShiftStep

SpecPushPop == InitPushPop /\ [][NextPushPop]_vars

\* The call is op(|S|) and the call before it on the same blueprint was
\* first(S).
Undoes(op, first) ==
    /\ call.op = op
    /\ call.prev.op = first
    /\ call.n = Num(Len(call.prev.steps))

\* C36: appending and removing are inverse on the step list: pushStep(S)
\* followed by popStep(|S|) restores the step list there was before the
\* pushStep, and so does unshiftStep(S) followed by shiftStep(|S|).
C36_PushPopInverse ==
    (Undoes("popStep", "pushStep") \/ Undoes("shiftStep", "unshiftStep")) =>
        blueprint.steps = call.prev.before.steps

\* pushStep of two steps on a list with steps, then popStep(2).
C36_Witness ==
    /\ Undoes("popStep", "pushStep")
    /\ Len(call.prev.steps) = 2
    /\ call.prev.before.steps # <<>>
    /\ call.before.steps = call.prev.before.steps \o call.prev.steps
    /\ blueprint.steps = call.prev.before.steps

\* unshiftStep of two steps on a list with steps, then shiftStep(2).
C36_UnshiftShiftReached ==
    /\ Undoes("shiftStep", "unshiftStep")
    /\ Len(call.prev.steps) = 2
    /\ call.prev.before.steps # <<>>
    /\ call.before.steps = call.prev.steps \o call.prev.before.steps
    /\ blueprint.steps = call.prev.before.steps

-----------------------------------------------------------------------------
(* The chainable Workflow class of src/src/Workflow.ts.  An instance holds  *)
(* a reference to a step array; h is the heap: h.workflows[w].steps is the  *)
(* identity of the array instance w holds, h.arrays[a] the elements of      *)
(* array a.  Every method ends with new Workflow(...).                      *)

Heap == [workflows |-> workflows, arrays |-> arrays]

\* this.steps of instance w
StepsOf(h, w) == h.arrays[h.workflows[w].steps]

\* A single step, or an array of steps, as a method is handed it.
OneStep(s) == [t |-> "step", step |-> s]

ArrayOf(s) == [t |-> "array", steps |-> s]

\* Array.isArray(steps) ? steps : [steps]
StepsArray(given) == IF given.t = "array" THEN given.steps ELSE << given.step >>

\* new Workflow(newSteps, this.context) with newSteps a fresh array
NewWorkflow(h, newSteps) ==
    [workflows |-> Append(h.workflows, [steps |-> Len(h.arrays) + 1]),
     arrays |-> Append(h.arrays, newSteps)]

\* this.steps.map((step, index) =>
\*     step.name && minimatch(step.name, test) ? index : -1)
\*   .filter((index) => index !== -1)
Workflow_findMatchingStepIndices(list, test) ==
    LET mapped == [i \in 1..Len(list) |->
                     IF Truthy(list[i].name) /\ minimatch(list[i].name.chars, test)
                     THEN i - 1 ELSE -1]
        Kept(k) == k # -1
    IN SelectSeq(mapped, Kept)

\* switch (typeof option); the null of case "undefined" is the empty list
\* getSortedIndices turns it into
Workflow_processOption(list, option, pos) ==
    IF option.t = "undefined" THEN <<>>
    ELSE IF option.t = "number" THEN << [index |-> option.n, pos |-> pos] >>
    ELSE LET found == Workflow_findMatchingStepIndices(list, option.s)
         IN [k \in 1..Len(found) |-> [index |-> found[k], pos |-> pos]]

\* [{ index: this.steps.length, pos: "after" }]
Workflow_defaultInsertIndex(list) == << [index |-> Len(list), pos |-> "after"] >>

\* [...before points, ...after points], then indices.sort(...)
Workflow_getSortedIndices(list, options) ==
    SortPoints(Workflow_processOption(list, options.before, "before")
               \o Workflow_processOption(list, options.after, "after"))

\* A negative multi keeps the first |multi| points.
Workflow_handleMultiOptionIgnoresSign(indices, multi) ==
    IF multi.t = "undefined" \/ (multi.t = "boolean" /\ multi.b) THEN indices
    ELSE IF multi.t = "boolean" THEN Slice(indices, 0, 1)
    ELSE IF multi.n > 0 THEN Slice(indices, 0, multi.n)
    ELSE Slice(indices, 0, 0 - multi.n)

\* multi === true || multi === undefined; multi === false; a number
Workflow_handleMultiOption(indices, multi) ==
    IF multi.t = "undefined" \/ (multi.t = "boolean" /\ multi.b) THEN indices
    ELSE IF multi.t = "boolean" THEN Slice(indices, 0, 1)
    ELSE IF multi.n > 0 THEN Slice(indices, 0, multi.n)
    ELSE SliceFrom(indices, Max(Len(indices) + multi.n, 0))

\* !options || Object.keys(options).length === 0
Workflow_calcInsertIndex(list, options) ==
    IF NoKeys(options) THEN Workflow_defaultInsertIndex(list)
    ELSE Workflow_handleMultiOption(Workflow_getSortedIndices(list, options),
                                    options.multi)

\* The loop of Workflow.addStep over the reversed points: splice(index, 0,
\* ...) for "before", splice(index + 1, 0, ...) for "after".
RECURSIVE Workflow_applyPoints(_, _, _)
Workflow_applyPoints(list, points, new) ==
    IF points = <<>> THEN list
    ELSE LET p == Head(points)
             at == IF p.pos = "before" THEN p.index ELSE p.index + 1
         IN Workflow_applyPoints(Splice(list, at, new), Tail(points), new)

\* The steps are pushed onto the array the receiver holds.
Workflow_pushStepInPlace(h, w, given) ==
    [workflows |-> Append(h.workflows, [steps |-> h.workflows[w].steps]),
     arrays |-> [h.arrays EXCEPT ![h.workflows[w].steps] = @ \o StepsArray(given)]]

\* new Workflow([...this.steps, ...stepsArray], this.context)
Workflow_pushStep(h, w, given) ==
    NewWorkflow(h, StepsOf(h, w) \o StepsArray(given))

\* new Workflow([...stepsArray, ...this.steps], this.context)
Workflow_unshiftStep(h, w, given) ==
    NewWorkflow(h, StepsArray(given) \o StepsOf(h, w))

\* newSteps = [...this.steps]; the splices; new Workflow(newSteps, ...)
Workflow_addStep(h, w, given, options) ==
    NewWorkflow(h, Workflow_applyPoints(
                       StepsOf(h, w),
                       Reverse(Workflow_calcInsertIndex(StepsOf(h, w), options)),
                       StepsArray(given)))

\* this.steps.slice(0, Math.max(0, this.steps.length - count))
Workflow_popStep(h, w, n) ==
    NewWorkflow(h, Slice(StepsOf(h, w), 0,
                         Max(0, Len(StepsOf(h, w)) - CountOrDefault(n))))

\* this.steps.slice(count)
Workflow_shiftStep(h, w, n) ==
    NewWorkflow(h, SliceFrom(StepsOf(h, w), CountOrDefault(n)))

\* testFn of Workflow.removeStep: a pattern on the name, membership in the
\* given array, or being the given step.
Workflow_removeTest(step, target) ==
    IF target.t = "string"
    THEN step.name.defined /\ minimatch(step.name.chars, target.s)
    ELSE IF target.t = "array"
    THEN \E k \in 1..Len(target.steps) : target.steps[k] = step
    ELSE step = target.step

\* this.steps.filter((step) => !testFn(step))
Workflow_removeStep(h, w, target) ==
    LET Kept(step) == ~Workflow_removeTest(step, target)
    IN NewWorkflow(h, SelectSeq(StepsOf(h, w), Kept))

\* new Workflow(this.steps, {}): the new instance holds the same array
Workflow_withContext(h, w) ==
    [h EXCEPT !.workflows = Append(h.workflows, [steps |-> h.workflows[w].steps])]

-----------------------------------------------------------------------------
(* Calls of the Workflow class methods *)

\* A named and an unnamed step.
ClassSteps ==
    { [name |-> n, on |-> Undefined, out |-> [kind |-> "return", value |-> "a"]] :
        n \in { Named(<<"e", "/", "a">>), NoName } }

\* An instance holding the given steps: Workflow.create().pushStep(list).
\* The caller makes up to `calls` method calls.
InitClass(lists, calls) ==
    /\ arrays \in { <<s>> : s \in lists }
    /\ workflows = << [steps |-> 1] >>
    /\ call = [op |-> "Workflow.create", left |-> calls]
    /\ blueprint = [steps |-> <<>>, conclude |-> DefaultConclude,
                    userContext |-> EmptyContext]
    /\ asStep = NoAdapter
    /\ steps = <<>>
    /\ pc = "idle"
    /\ index = 0
    /\ result = Undefined
    /\ caughtError = Null
    /\ errorStep = -1
    /\ output = NoOutput
    /\ started = <<>>
    /\ finished = <<>>

\* What a method call leaves alone, and what it records: the heap before the
\* call, the receiver, and the instance returned.
ClassCall(op, w, h, args) ==
    /\ workflows' = h.workflows
    /\ arrays' = h.arrays
    /\ call' = [op |-> op, left |-> call.left - 1, receiver |-> w,
                before |-> Heap, returned |-> Len(h.workflows), args |-> args]
    /\ UNCHANGED <<steps, pc, index, result, caughtError, errorStep, output,
                   started, finished, blueprint, asStep>>

\* workflow.pushStep(steps)
ClassPushStep ==
    /\ call.left > 0
    /\ \E w \in DOMAIN workflows, given \in {ArrayOf(<<StepX, StepY>>)} :
          ClassCall("Workflow.pushStep", w, Workflow_pushStep(Heap, w, given),
                    [given |-> given])

\* workflow.unshiftStep(step)
ClassUnshiftStep ==
    /\ call.left > 0
    /\ \E w \in DOMAIN workflows, given \in {OneStep(StepX)} :
          ClassCall("Workflow.unshiftStep", w, Workflow_unshiftStep(Heap, w, given),
                    [given |-> given])

\* workflow.addStep(steps, options) on instance w, with steps and options
\* of the given sets
ClassAddStep(w, inputs, optionSet) ==
    /\ call.left > 0
    /\ \E given \in inputs, options \in optionSet :
          ClassCall("Workflow.addStep", w,
                    Workflow_addStep(Heap, w, given, options),
                    [given |-> given, options |-> options])

\* The options of the addStep calls made beside the other methods: none, a
\* numeric before, a pattern in after cut to its first match.
ClassInsertOptions ==
    { [before |-> Absent, after |-> Absent, multi |-> Absent],
      [before |-> Num(0), after |-> Absent, multi |-> Absent],
      [before |-> Absent, after |-> Str(<<"e", "/", "*">>), multi |-> Bool(FALSE)] }

ClassAddStepFew ==
    \E w \in DOMAIN workflows :
        ClassAddStep(w, {ArrayOf(<<StepX, StepY>>)}, ClassInsertOptions)

\* workflow.popStep(n)
ClassPopStep ==
    /\ call.left > 0
    /\ \E w \in DOMAIN workflows, n \in {Absent, Num(2)} :
          ClassCall("Workflow.popStep", w, Workflow_popStep(Heap, w, n), [n |-> n])

\* workflow.shiftStep(n)
ClassShiftStep ==
    /\ call.left > 0
    /\ \E w \in DOMAIN workflows, n \in {Absent, Num(-1)} :
          ClassCall("Workflow.shiftStep", w, Workflow_shiftStep(Heap, w, n), [n |-> n])

\* What Workflow.removeStep is handed: a pattern, a step, an array of steps.
ClassRemoveTargets ==
    {Str(<<"e", "/", "*">>)}
    \cup { OneStep(s) : s \in {StepX} }
    \cup { ArrayOf(<<s, StepY>>) : s \in { c \in ClassSteps : ~c.name.defined } }

\* workflow.removeStep(steps)
ClassRemoveStep ==
    /\ call.left > 0
    /\ \E w \in DOMAIN workflows, target \in ClassRemoveTargets :
          ClassCall("Workflow.removeStep", w, Workflow_removeStep(Heap, w, target),
                    [target |-> target])

\* workflow.withContext()
ClassWithContext ==
    /\ call.left > 0
    /\ \E w \in DOMAIN workflows :
          ClassCall("Workflow.withContext", w, Workflow_withContext(Heap, w),
                    [none |-> TRUE])

InitWorkflow == InitClass(SeqsUpTo(ClassSteps, MaxLen), MaxCalls)

NextWorkflow ==
    \/ ClassPushStep
    \/ ClassUnshiftStep
    \/ ClassAddStepFew
    \/ ClassPopStep
    \/ ClassShiftStep
    \/ ClassRemoveStep
    \/ ClassWithContext

\* Chains of method calls on the instances there are.
SpecWorkflow == InitWorkflow /\ [][NextWorkflow]_vars

\* The steps handed to Workflow.addStep: one step, or an array of steps.
AddStepInputs == { OneStep(StepX), ArrayOf(<<StepX, StepY>>) }

InitAddStep == InitClass(SeqsUpTo(BlueprintSteps, MaxLen), 1)

\* workflow.addStep(steps, options) with any options
NextAddStep ==
    \E w \in DOMAIN workflows :
        ClassAddStep(w, AddStepInputs, InsertOptions(Len(StepsOf(Heap, w))))

SpecAddStep == InitAddStep /\ [][NextAddStep]_vars

-----------------------------------------------------------------------------
(* Persistence of the Workflow class *)

StepListMethods ==
    {"Workflow.pushStep", "Workflow.unshiftStep", "Workflow.addStep",
     "Workflow.popStep", "Workflow.shiftStep", "Workflow.removeStep"}

\* C31: the Workflow class is persistent: pushStep, unshiftStep, addStep,
\* popStep, shiftStep and removeStep each return a new Workflow instance, and
\* the receiver, like every instance there was before the call, still has
\* the step list it had, whatever calls were made before.
C31_WorkflowIsPersistent ==
    call.op \in StepListMethods =>
        /\ call.returned = Len(call.before.workflows) + 1
        /\ call.returned \in DOMAIN workflows
        /\ \A w \in DOMAIN call.before.workflows :
              /\ workflows[w] = call.before.workflows[w]
              /\ StepsOf(Heap, w) = StepsOf(call.before, w)

\* A second call on the first instance, after a first call had built another
\* instance from it: the first instance has its steps, the instance returned
\* has more.
C31_Witness ==
    /\ call.op = "Workflow.pushStep"
    /\ Len(workflows) = 3
    /\ call.receiver = 1
    /\ StepsOf(Heap, 1) # <<>>
    /\ StepsOf(Heap, 1) = StepsOf(call.before, 1)
    /\ Len(StepsOf(Heap, 3)) = Len(StepsOf(Heap, 1)) + 2

\* popStep on an instance that withContext() made, which holds the very array
\* of the instance it was made from: two steps fewer in the instance returned,
\* none fewer in the other two.
C31_SharedArrayReached ==
    /\ call.op = "Workflow.popStep"
    /\ call.receiver = 2
    /\ workflows[2].steps = workflows[1].steps
    /\ Len(StepsOf(Heap, 1)) = 3
    /\ Len(StepsOf(Heap, 2)) = 3
    /\ Len(StepsOf(Heap, 3)) = 1

-----------------------------------------------------------------------------
(* Workflow.addStep and WorkflowBuilder.addStep *)

\* The blueprint WorkflowBuilder.createBlueprint(list) gives.
BlueprintOf(list) ==
    [steps |-> list, conclude |-> DefaultConclude, userContext |-> EmptyContext]

\* C33: for the same starting step list, the same steps to insert and the
\* same options, the addStep method of the Workflow class and
\* WorkflowBuilder.addStep produce the same step list.
C33_AddStepAgrees ==
    call.op = "Workflow.addStep" =>
        StepsOf(Heap, call.returned)
          = addStep(BlueprintOf(StepsOf(call.before, call.receiver)),
                    StepsArray(call.args.given), call.args.options).steps

\* A pattern in before and an index in after, multi: -1, two steps inserted
\* into a list of three: both methods give the same longer list.
C33_Witness ==
    /\ call.op = "Workflow.addStep"
    /\ call.args.options.before.t = "string"
    /\ call.args.options.after.t = "number"
    /\ call.args.options.multi = Num(-1)
    /\ call.args.given = ArrayOf(<<StepX, StepY>>)
    /\ Len(StepsOf(call.before, 1)) = 3
    /\ Len(StepsOf(Heap, 2)) = 5
    /\ StepsOf(Heap, 2)
         = addStep(BlueprintOf(StepsOf(call.before, 1)), <<StepX, StepY>>,
                   call.args.options).steps

\* A single step handed to Workflow.addStep without options: it is appended,
\* as the one-element array is by the Builder.
C33_SingleStepReached ==
    /\ call.op = "Workflow.addStep"
    /\ call.args.given = OneStep(StepX)
    /\ NoKeys(call.args.options)
    /\ StepsOf(call.before, 1) # <<>>
    /\ StepsOf(Heap, 2) = Append(StepsOf(call.before, 1), StepX)
====
